---- MODULE Spec2Model ----
(***************************************************************************)
(* Model of the retry / credential-refresh core of google-cloud-cpp:       *)
(*   - storage::internal::AuthorizedUserCredentials (token cache),         *)
(*     google/cloud/storage/internal/authorized_user_credentials.h         *)
(*   - bigtable::noex::TableAdmin: AsyncGetTable (asynchronous retry), the *)
(*     wait for consistency (polling) and the constructors with policy     *)
(*     overrides, google/cloud/bigtable/internal/table_admin.h             *)
(* Each part has its own specification over the same variables: Spec and   *)
(* FairSpec (token cache), AsyncSpec, PollSpec and FairPollSpec,           *)
(* ConstructSpec, and BackoffSpec (one backoff policy on its own).         *)
(* Time is counted in abstract clock units; the policy parameters below    *)
(* are scaled to that unit.                                                *)
(***************************************************************************)
EXTENDS Integers, Sequences, FiniteSets, TLC

\* ------------------------------------------------------------------ bounds
NumThreads == 2      \* threads that call AuthorizationHeader
NumOps == 2          \* asynchronous operations started on one TableAdmin
MaxCalls == 1        \* AuthorizationHeader calls per thread
MaxRequests == 3     \* requests the token endpoint receives in one run
MaxTime == 2         \* the clock stops advancing here
MaxLimit == 2        \* largest limit of a count-bounded retry policy
RetryPeriod == 2     \* period of the time-bounded retry policy
MaxBackoff == 2      \* maximum delay of the backoff policy
MaxInitialDelay == 3 \* largest initial delay of a backoff policy under test
MaxMaximumDelay == 9 \* largest maximum delay of a backoff policy under test
MaxScaling == 3      \* largest scaling factor of a backoff policy under test
MaxDelays == 17      \* OnCompletion calls made on one backoff policy
MaxOverrides == 3    \* policy overrides passed to one constructor
MaxPolls == 3        \* largest limit of a count-bounded polling policy
MaxPayload == 3      \* bytes of the longest payload streamed through a validator
NumWaits == 1        \* threads that wait for consistency on one TableAdmin

Threads == 1..NumThreads
Ops == 1..NumOps
Waits == 1..NumWaits

\* ------------------------------------------------------ token endpoint data
\* A JSON value of the response body, as far as Refresh looks at it.
Str(s) == [type |-> "string", str |-> s, num |-> 0]
Num(n) == [type |-> "number", str |-> "", num |-> n]
Null == [type |-> "null", str |-> "", num |-> 0]

Body(p, tt, at, id, ex) ==
    [parsable |-> p, token_type |-> tt, access_token |-> at,
     id_token |-> id, expires_in |-> ex]

GoodLong == Body(TRUE, Str("Bearer"), Str("A"), Str("id"), Num(3))
GoodShort == Body(TRUE, Str("Bearer"), Str("B"), Str("id"), Num(1))
NoIdToken == Body(TRUE, Str("Bearer"), Str("C"), Null, Num(3))
NoExpiresIn == Body(TRUE, Str("Bearer"), Str("D"), Str("id"), Null)
NotJson == Body(FALSE, Null, Null, Null, Null)
Empty == Body(TRUE, Null, Null, Null, Null)

Payloads == {GoodLong, GoodShort, NoIdToken, NoExpiresIn, NotJson}

\* What the endpoint may answer: 200 with any payload, a transient and a
\* permanent failure.  Kind(r) of a 200 is "badbody" when the parse throws.
Responses ==
    {[status_code |-> 200, payload |-> p] : p \in Payloads}
        \cup {[status_code |-> 503, payload |-> Empty],
              [status_code |-> 404, payload |-> Empty]}

\* The network, per thread: a request waiting for its answer, or nothing.
Pending == "request"
NoMessage == "-"

\* The slack subtracted from a token's lifetime.
GoogleOAuthTokenExpirationSlack == 1

\* ----------------------------------------------------------- retry policies
\* retry_policy.h is not part of the sources at hand; the policies follow the
\* design document.  limit: attempts allowed; deadline: absolute time, set
\* when the policy object is created.
LimitedErrorCountRetryPolicy(n) ==
    [kind |-> "count", limit |-> n, failures |-> 0, period |-> 0,
     deadline |-> 0]

LimitedTimeRetryPolicy(period, clock) ==
    [kind |-> "time", limit |-> 0, failures |-> 0, period |-> period,
     deadline |-> clock + period]

\* Transient: a network failure (grpc UNAVAILABLE, 14), 429 and 5xx.
\* Everything else is permanent.
IsRetryable(code) == code = 14 \/ code = 429 \/ (code >= 500 /\ code <= 599)

IsExhausted(p, clock) ==
    IF p.kind = "count" THEN p.failures >= p.limit ELSE clock >= p.deadline

\* The policy after a failure.  A permanent error is refused before any
\* budget accounting.
AfterFailure(p, code) ==
    IF ~IsRetryable(code) THEN p
    ELSE IF p.kind = "count" THEN [p EXCEPT !.failures = p.failures + 1]
    ELSE p

\* Whether the caller should retry after this failure.
OnFailure(p, code, clock) ==
    IsRetryable(code) /\ ~IsExhausted(AfterFailure(p, code), clock)

\* clone(): a policy with the same parameters and a fresh budget.
CloneRetry(p, clock) ==
    IF p.kind = "count" THEN LimitedErrorCountRetryPolicy(p.limit)
    ELSE LimitedTimeRetryPolicy(p.period, clock)

\* --------------------------------------------------------- backoff policies
ExponentialBackoffPolicy(initial, maximum, scaling) ==
    [initial |-> initial, maximum |-> maximum, scaling |-> scaling,
     current |-> initial]

Min(a, b) == IF a < b THEN a ELSE b

\* OnCompletion(): the delay to wait now ...
OnCompletion(b) == b.current

\* ... and the policy afterwards.
AfterCompletion(b) ==
    [b EXCEPT !.current = Min(b.current * b.scaling, b.maximum)]

CloneBackoff(b) == ExponentialBackoffPolicy(b.initial, b.maximum, b.scaling)

\* The defaults of the storage client, in milliseconds (lines 37-48).
STORAGE_CLIENT_DEFAULT_INITIAL_BACKOFF_DELAY == 10
STORAGE_CLIENT_DEFAULT_MAXIMUM_BACKOFF_DELAY == 5 * 60 * 1000
STORAGE_CLIENT_DEFAULT_BACKOFF_SCALING == 2

\* A variant with a defect: initial and maximum delay in the wrong order.
StorageDefaultBackoffPolicy_Swapped ==
    ExponentialBackoffPolicy(STORAGE_CLIENT_DEFAULT_MAXIMUM_BACKOFF_DELAY,
                             STORAGE_CLIENT_DEFAULT_INITIAL_BACKOFF_DELAY,
                             STORAGE_CLIENT_DEFAULT_BACKOFF_SCALING)

\* The backoff policy the constructor installs, lines 101-105.
StorageDefaultBackoffPolicy ==
    ExponentialBackoffPolicy(STORAGE_CLIENT_DEFAULT_INITIAL_BACKOFF_DELAY,
                             STORAGE_CLIENT_DEFAULT_MAXIMUM_BACKOFF_DELAY,
                             STORAGE_CLIENT_DEFAULT_BACKOFF_SCALING)

\* ---------------------------------------------------------- polling policies
\* polling_policy.h is not part of the sources at hand.  A polling policy is
\* a retry policy, which bounds the polls, and a backoff policy, which spaces
\* them.
GenericPollingPolicy(retry, backoff) == [retry |-> retry, backoff |-> backoff]

ClonePolling(p, clock) ==
    GenericPollingPolicy(CloneRetry(p.retry, clock), CloneBackoff(p.backoff))

\* wait_period(): the delay before the next poll, and the policy afterwards.
WaitPeriod(p) == OnCompletion(p.backoff)
AfterWaitPeriod(p) == [p EXCEPT !.backoff = AfterCompletion(p.backoff)]

\* The policy after a poll that found the operation not done: the poll
\* counts against the bound.
AfterNotDone(p) ==
    [p EXCEPT !.retry =
        IF p.retry.kind = "count"
        THEN [p.retry EXCEPT !.failures = p.retry.failures + 1]
        ELSE p.retry]

PollingExhausted(p, clock) == IsExhausted(p.retry, clock)

\* -------------------------------------------------------------------- state
VARIABLES
    now,                    \* std::chrono::system_clock::now()
    mu_,                    \* the threads that own mu_ (a mutex: at most one)
    authorization_header_,
    expiration_time_,
    retry_policy_,
    backoff_policy_,
    pc,                     \* where each thread is in AuthorizationHeader
    result,                 \* what each thread's last call returned
    net,                    \* per thread: its request / the response to it
    requests,               \* requests the token endpoint has received
    attempts,               \* requests made on behalf of the current call
    seen,                   \* kinds of response the current call has handled
    ncalls,                 \* calls started by each thread
    rpc_retry_policy_,      \* TableAdmin: the retry policy prototype
    rpc_backoff_policy_,    \* TableAdmin: the backoff policy prototype
    polling_policy_,        \* TableAdmin: the polling policy prototype
    op,                     \* the asynchronous operations started so far
    poll,                   \* the WaitForConsistencyCheck calls
    ctor,                   \* a constructor call and its policy overrides
    delays,                 \* the delays one backoff policy has returned
    adc,                    \* a GoogleDefaultCredentials call and its inputs
    hv                      \* one MD5HashValidator and the transfer it checks

vars == <<now, mu_, authorization_header_, expiration_time_, retry_policy_,
          backoff_policy_, pc, result, net, requests, attempts, seen, ncalls,
          rpc_retry_policy_, rpc_backoff_policy_, polling_policy_, op, poll,
          ctor, delays, adc, hv>>

cache == <<authorization_header_, expiration_time_>>
policies == <<retry_policy_, backoff_policy_>>
history == <<requests, attempts, seen, ncalls>>
prototypes == <<rpc_retry_policy_, rpc_backoff_policy_, polling_policy_>>
admin == <<prototypes, op>>
storage == <<adc, hv>>
others == <<poll, ctor, delays, storage>>
credentials == <<mu_, cache, policies, pc, result, net, history>>

NoResult == "(none)"

\* ------------------------------------------------- parsing a 200 response
\* Lines 138-146: nl::json::parse, get_ref<std::string const&> of token_type
\* and access_token, the conversion of id_token to std::string and of
\* expires_in to a number each throw on a missing or ill-typed value.
ParseThrows(p) ==
    \/ ~p.parsable
    \/ p.token_type.type # "string"
    \/ p.access_token.type # "string"
    \/ p.id_token.type # "string"
    \/ p.expires_in.type # "number"

\* A variant with a defect: the token comes before its type.
Header_Swapped(p) ==
    "Authorization: " \o p.access_token.str \o " " \o p.token_type.str

\* Lines 139-142.
Header(p) == "Authorization: " \o p.token_type.str \o " " \o p.access_token.str

\* A variant with a defect: the slack is not subtracted.
NewExpiration_NoSlack(p, clock) == clock + p.expires_in.num

\* Lines 144-146.
NewExpiration(p, clock) ==
    clock + p.expires_in.num - GoogleOAuthTokenExpirationSlack

\* Variants with a defect, used to test that the properties below can fail.
CacheAfterParseError_Partial(p, header, expiration) ==
    IF p.parsable /\ p.token_type.type = "string"
                  /\ p.access_token.type = "string"
    THEN <<"Authorization: " \o p.token_type.str \o " "
               \o p.access_token.str, expiration>>
    ELSE <<header, expiration>>

CacheAfterParseError_Reset(p, header, expiration) == <<"", 0>>

CacheIsFresh_Swapped(clock, expiration) == expiration < clock

MutexFree_Always(holders) == TRUE

\* The cached pair after a 200 response whose parse threw: none of the
\* assignments of lines 148-149 has run.
CacheAfterParseError(p, header, expiration) == <<header, expiration>>

\* A variant with a defect: a token counts as valid at its expiration time.
CacheIsFresh_OrEqual(clock, expiration) == clock <= expiration

\* Line 130.
CacheIsFresh(clock, expiration) == clock < expiration

\* mu_ can be locked.
MutexFree(holders) == holders = {}

Kind(r) ==
    IF r.status_code = 200
    THEN IF ParseThrows(r.payload) THEN "badbody" ELSE "ok"
    ELSE IF IsRetryable(r.status_code) THEN "transient" ELSE "permanent"

\* --------------------------------------------------------------------- Init
\* The constructor (lines 95-105) installs the default, time-bounded retry
\* policy and the exponential backoff; ApplyPolicies (lines 162-172) may
\* replace the retry policy by a count-bounded one.
RetryPolicies ==
    {LimitedErrorCountRetryPolicy(n) : n \in 1..MaxLimit}
        \cup {LimitedTimeRetryPolicy(RetryPeriod, 0)}

DefaultRetryPolicy == LimitedTimeRetryPolicy(RetryPeriod, 0)
DefaultBackoffPolicy == ExponentialBackoffPolicy(1, MaxBackoff, 2)

DefaultPollingPolicy ==
    GenericPollingPolicy(DefaultRetryPolicy, DefaultBackoffPolicy)

\* A wait for consistency that has not been started.
IdlePoll ==
    [state |-> "idle", policy |-> DefaultPollingPolicy, requests |-> 0,
     responses |-> << >>, result |-> [kind |-> "none", value |-> "-"]]

\* No constructor call under way.
NoCtor == [target |-> "none", args |-> << >>, built |-> TRUE, at |-> 0]

\* An operation that has not been started.
NoStatus == [kind |-> "none", code |-> 0]
IdleOp ==
    [state |-> "idle", idempotent |-> TRUE, retry |-> DefaultRetryPolicy,
     backoff |-> DefaultBackoffPolicy, attempts |-> 0, last |-> 0,
     timer_at |-> 0, cancelled |-> FALSE, callbacks |-> 0,
     outstanding |-> 0, status |-> NoStatus]

\* No GoogleDefaultCredentials call has been made.
NoCredentials == [kind |-> "none", class |-> "-", what |-> ""]
NoDocument == [parsable |-> FALSE, object |-> FALSE, has_type |-> FALSE,
               type |-> Null]
NoAdc ==
    [state |-> "idle", path |-> "", openable |-> FALSE,
     contents |-> NoDocument, result |-> NoCredentials]

\* No transfer is being validated.
NoHashResult == [kind |-> "none", received |-> "", computed |-> ""]
NoCall == [call |-> "none", hash |-> ""]
NoValidator ==
    [state |-> "none", context_ |-> 0, received_hash_ |-> "",
     expected |-> "", md5_hash |-> "", last |-> NoCall,
     result |-> NoHashResult]

InitStorage ==
    /\ adc = NoAdc
    /\ hv = NoValidator

InitCredentials ==
    /\ now = 0
    /\ mu_ = {}
    /\ authorization_header_ = ""
    /\ expiration_time_ = 0
    /\ pc = [t \in Threads |-> "idle"]
    /\ result = [t \in Threads |-> NoResult]
    /\ net = [t \in Threads |-> NoMessage]
    /\ requests = 0
    /\ attempts = [t \in Threads |-> 0]
    /\ seen = [t \in Threads |-> {}]
    /\ ncalls = [t \in Threads |-> 0]

\* TableAdmin's constructors, table_admin.h lines 52-62 and 90-95.
InitTableAdmin ==
    /\ rpc_backoff_policy_ = DefaultBackoffPolicy
    /\ op = [o \in Ops |-> IdleOp]

\* No wait for consistency, no constructor call with overrides and no
\* backoff policy under test.
InitOthers ==
    /\ poll = [o \in Waits |-> IdlePoll]
    /\ ctor = NoCtor
    /\ delays = << >>
    /\ InitStorage

\* One credentials object, used by NumThreads threads.
Init ==
    /\ InitCredentials
    /\ InitTableAdmin
    /\ InitOthers
    /\ retry_policy_ \in RetryPolicies
    /\ backoff_policy_ = DefaultBackoffPolicy
    /\ rpc_retry_policy_ = DefaultRetryPolicy
    /\ polling_policy_ = DefaultPollingPolicy

\* ------------------------------------------------------------------ actions
\* A thread calls AuthorizationHeader (line 122) and asks for mu_.
Call(t) ==
    /\ pc[t] \in {"idle", "done", "threw"}
    /\ ncalls[t] < MaxCalls
    /\ pc' = [pc EXCEPT ![t] = "lock"]
    /\ result' = [result EXCEPT ![t] = NoResult]
    /\ attempts' = [attempts EXCEPT ![t] = 0]
    /\ seen' = [seen EXCEPT ![t] = {}]
    /\ ncalls' = [ncalls EXCEPT ![t] = ncalls[t] + 1]
    /\ UNCHANGED <<now, mu_, cache, policies, net, requests>>
    /\ UNCHANGED <<admin, others>>

\* std::unique_lock<std::mutex> lk(mu_), line 123; also the re-acquisition
\* of mu_ when cv_.wait wakes up.  The predicate Refresh() runs next.

Lock(t) ==
    /\ pc[t] = "lock"
    /\ MutexFree(mu_)
    /\ mu_' = mu_ \cup {t}
    /\ pc' = [pc EXCEPT ![t] = "refresh"]
    /\ UNCHANGED <<now, cache, policies, result, net, history>>
    /\ UNCHANGED <<admin, others>>

\* Refresh, lines 130-132, and on `true` the return of line 125.
RefreshEntry(t) ==
    /\ pc[t] = "refresh"
    /\ IF CacheIsFresh(now, expiration_time_)
       THEN /\ pc' = [pc EXCEPT ![t] = "done"]
            /\ result' = [result EXCEPT ![t] = authorization_header_]
            /\ mu_' = mu_ \ {t}
       ELSE /\ pc' = [pc EXCEPT ![t] = "loop"]
            /\ UNCHANGED <<result, mu_>>
    /\ UNCHANGED <<now, cache, policies, net, history>>
    /\ UNCHANGED <<admin, others>>

\* The loop condition of line 135: either Refresh returns false (line 159)
\* and cv_.wait blocks, releasing mu_, or the request of line 136 goes out.
LoopHead(t) ==
    /\ pc[t] = "loop"
    /\ IF IsExhausted(retry_policy_, now)
       THEN /\ pc' = [pc EXCEPT ![t] = "wait"]
            /\ mu_' = mu_ \ {t}
            /\ UNCHANGED <<net, requests, attempts>>
       ELSE /\ requests < MaxRequests
            /\ pc' = [pc EXCEPT ![t] = "inflight"]
            /\ net' = [net EXCEPT ![t] = Pending]
            /\ requests' = requests + 1
            /\ attempts' = [attempts EXCEPT ![t] = attempts[t] + 1]
            /\ UNCHANGED mu_
    /\ UNCHANGED <<now, cache, policies, result, seen, ncalls>>
    /\ UNCHANGED <<admin, others>>

\* A variant with a defect: a non-200 response drops the cached token.
HandleResponse_FailureClearsCache(t, r) ==
    /\ pc[t] = "inflight"
    /\ net[t] = Pending
    /\ LET p == r.payload
       IN /\ net' = [net EXCEPT ![t] = NoMessage]
          /\ seen' = [seen EXCEPT ![t] = seen[t] \cup {Kind(r)}]
          /\ IF r.status_code = 200
             THEN IF ParseThrows(p)
                  THEN \* the exception leaves AuthorizationHeader; lk unlocks
                       /\ authorization_header_' =
                              CacheAfterParseError(p, authorization_header_,
                                                   expiration_time_)[1]
                       /\ expiration_time_' =
                              CacheAfterParseError(p, authorization_header_,
                                                   expiration_time_)[2]
                       /\ pc' = [pc EXCEPT ![t] = "threw"]
                       /\ mu_' = mu_ \ {t}
                       /\ UNCHANGED <<result, policies>>
                  ELSE \* lines 148-150, then line 125
                       /\ authorization_header_' = Header(p)
                       /\ expiration_time_' = NewExpiration(p, now)
                       /\ pc' = [pc EXCEPT ![t] = "done"]
                       /\ result' = [result EXCEPT ![t] = Header(p)]
                       /\ mu_' = mu_ \ {t}
                       /\ UNCHANGED policies
             ELSE \* lines 152-155
                  /\ retry_policy_' = AfterFailure(retry_policy_, r.status_code)
                  /\ IF OnFailure(retry_policy_, r.status_code, now)
                     THEN /\ pc' = [pc EXCEPT ![t] = "backoff"]
                          /\ UNCHANGED mu_
                     ELSE /\ pc' = [pc EXCEPT ![t] = "wait"]
                          /\ mu_' = mu_ \ {t}
                  /\ authorization_header_' = ""
                  /\ expiration_time_' = 0
                  /\ UNCHANGED <<backoff_policy_, result>>
    /\ UNCHANGED <<now, requests, attempts, ncalls>>
    /\ UNCHANGED <<admin, others>>

\* MakeRequest returns with the endpoint's answer r, lines 136-155.
HandleResponse(t, r) ==
    /\ pc[t] = "inflight"
    /\ net[t] = Pending
    /\ LET p == r.payload
       IN /\ net' = [net EXCEPT ![t] = NoMessage]
          /\ seen' = [seen EXCEPT ![t] = seen[t] \cup {Kind(r)}]
          /\ IF r.status_code = 200
             THEN IF ParseThrows(p)
                  THEN \* the exception leaves AuthorizationHeader; lk unlocks
                       /\ authorization_header_' =
                              CacheAfterParseError(p, authorization_header_,
                                                   expiration_time_)[1]
                       /\ expiration_time_' =
                              CacheAfterParseError(p, authorization_header_,
                                                   expiration_time_)[2]
                       /\ pc' = [pc EXCEPT ![t] = "threw"]
                       /\ mu_' = mu_ \ {t}
                       /\ UNCHANGED <<result, policies>>
                  ELSE \* lines 148-150, then line 125
                       /\ authorization_header_' = Header(p)
                       /\ expiration_time_' = NewExpiration(p, now)
                       /\ pc' = [pc EXCEPT ![t] = "done"]
                       /\ result' = [result EXCEPT ![t] = Header(p)]
                       /\ mu_' = mu_ \ {t}
                       /\ UNCHANGED policies
             ELSE \* lines 152-155
                  /\ retry_policy_' = AfterFailure(retry_policy_, r.status_code)
                  /\ IF OnFailure(retry_policy_, r.status_code, now)
                     THEN /\ pc' = [pc EXCEPT ![t] = "backoff"]
                          /\ UNCHANGED mu_
                     ELSE /\ pc' = [pc EXCEPT ![t] = "wait"]
                          /\ mu_' = mu_ \ {t}
                  /\ UNCHANGED <<cache, backoff_policy_, result>>
    /\ UNCHANGED <<now, requests, attempts, ncalls>>
    /\ UNCHANGED <<admin, others>>

\* Lines 156-157: the thread sleeps, holding mu_, for the backoff delay.
BackoffSleep(t) ==
    /\ pc[t] = "backoff"
    /\ now + OnCompletion(backoff_policy_) <= MaxTime
    /\ now' = now + OnCompletion(backoff_policy_)
    /\ backoff_policy_' = AfterCompletion(backoff_policy_)
    /\ pc' = [pc EXCEPT ![t] = "loop"]
    /\ UNCHANGED <<mu_, cache, retry_policy_, result, net, history>>
    /\ UNCHANGED <<admin, others>>

\* cv_.wait may return without a notification; nothing in the class ever
\* notifies cv_.  The woken thread re-acquires mu_ and runs Refresh again.
SpuriousWakeup(t) ==
    /\ pc[t] = "wait"
    /\ pc' = [pc EXCEPT ![t] = "lock"]
    /\ UNCHANGED <<now, mu_, cache, policies, result, net, history>>
    /\ UNCHANGED <<admin, others>>

\* Time passes.
Tick ==
    /\ now < MaxTime
    /\ now' = now + 1
    /\ UNCHANGED <<mu_, cache, policies, pc, result, net, history>>
    /\ UNCHANGED <<admin, others>>

Next ==
    \/ \E t \in Threads : Call(t)
    \/ \E t \in Threads : Lock(t)
    \/ \E t \in Threads : RefreshEntry(t)
    \/ \E t \in Threads : LoopHead(t)
    \/ \E t \in Threads, r \in Responses : HandleResponse(t, r)
    \/ \E t \in Threads : BackoffSleep(t)
    \/ \E t \in Threads : SpuriousWakeup(t)
    \/ Tick

Spec == Init /\ [][Next]_vars

\* ------------------------------------------- asynchronous retry (TableAdmin)
\* async_retry_unary_rpc.h is not part of the sources at hand; the executor
\* follows the design document (the asynchronous path of the retry loop).

\* Status codes the transport may complete with: OK, UNAVAILABLE, NOT_FOUND.
TransportCodes == {0, 14, 5}

\* The decision after a failed attempt: retry or stop.  A non-idempotent
\* operation is never retried; otherwise the retry policy decides.
ShouldRetry_IgnoreIdempotency(idempotent, policy, code, clock) ==
    OnFailure(policy, code, clock)

ShouldRetry(idempotent, policy, code, clock) ==
    idempotent /\ OnFailure(policy, code, clock)

\* A variant with a defect: every stop is reported as retry-exhausted.
FinalStatus_AlwaysExhausted(idempotent, code) ==
    IF code = 0 THEN [kind |-> "ok", code |-> 0]
    ELSE IF ~idempotent THEN [kind |-> "as-is", code |-> code]
    ELSE [kind |-> "retry-exhausted", code |-> code]

\* How a terminal failure is reported: as it is for a non-idempotent
\* operation, as a permanent error, or as retry-exhausted.
FinalStatus(idempotent, code) ==
    IF code = 0 THEN [kind |-> "ok", code |-> 0]
    ELSE IF ~idempotent THEN [kind |-> "as-is", code |-> code]
    ELSE IF ~IsRetryable(code) THEN [kind |-> "permanent", code |-> code]
    ELSE [kind |-> "retry-exhausted", code |-> code]

\* AsyncRetryUnaryRpc: construction with the policies of this operation and
\* an idempotency policy, then Start, which issues the first transport call.
StartRetry(o, idempotent, retry, backoff) ==
    /\ op[o].state = "idle"
    /\ op' = [op EXCEPT ![o] =
                 [IdleOp EXCEPT
                     !.state = "inflight",
                     !.idempotent = idempotent,
                     !.retry = retry,
                     !.backoff = backoff,
                     !.attempts = 1,
                     !.outstanding = 1]]
    /\ UNCHANGED <<now, credentials, prototypes, others>>

\* A variant with a defect: the operation runs on the stored policies
\* themselves, not on clones.
AsyncGetTable_NoClone(o) ==
    StartRetry(o, TRUE, rpc_retry_policy_, rpc_backoff_policy_)

\* TableAdmin::AsyncGetTable, table_admin.h lines 142-167: the operation gets
\* rpc_retry_policy_->clone() and rpc_backoff_policy_->clone() (lines
\* 158-159) and ConstantIdempotencyPolicy(true).
AsyncGetTable(o) ==
    StartRetry(o, TRUE, CloneRetry(rpc_retry_policy_, now),
               CloneBackoff(rpc_backoff_policy_))

\* A call site whose operation is not idempotent.
AsyncNonIdempotent(o) ==
    StartRetry(o, FALSE, CloneRetry(rpc_retry_policy_, now),
               CloneBackoff(rpc_backoff_policy_))

\* Variants with a defect: the callback also runs when a retry is scheduled;
\* a cancellation is not looked at when the transport call completes; the
\* timer fires while the transport call is still in flight; a cancellation
\* runs the callback at once and leaves the operation going.
AfterTransportDone_CallbackOnRetry(r, code, clock) ==
    IF r.cancelled
    THEN [r EXCEPT !.state = "cancelled", !.last = code,
                   !.outstanding = r.outstanding - 1]
    ELSE IF code = 0 \/ ~ShouldRetry(r.idempotent, r.retry, code, clock)
    THEN [r EXCEPT !.state = "done", !.last = code,
                   !.outstanding = r.outstanding - 1,
                   !.callbacks = r.callbacks + 1,
                   !.status = FinalStatus(r.idempotent, code)]
    ELSE [r EXCEPT !.state = "timer", !.last = code,
                   !.outstanding = r.outstanding - 1,
                   !.callbacks = r.callbacks + 1,
                   !.retry = AfterFailure(r.retry, code),
                   !.timer_at = clock + OnCompletion(r.backoff),
                   !.backoff = AfterCompletion(r.backoff)]

AfterTransportDone_IgnoreCancel(r, code, clock) ==
    IF code = 0 \/ ~ShouldRetry(r.idempotent, r.retry, code, clock)
    THEN [r EXCEPT !.state = "done", !.last = code,
                   !.outstanding = r.outstanding - 1,
                   !.callbacks = r.callbacks + 1,
                   !.status = FinalStatus(r.idempotent, code)]
    ELSE [r EXCEPT !.state = "timer", !.last = code,
                   !.outstanding = r.outstanding - 1,
                   !.retry = AfterFailure(r.retry, code),
                   !.timer_at = clock + OnCompletion(r.backoff),
                   !.backoff = AfterCompletion(r.backoff)]

TimerDue_WhileInFlight(r, clock) ==
    r.state \in {"timer", "inflight"} /\ clock >= r.timer_at

AfterCancel_CallbackNow(r) ==
    [r EXCEPT !.callbacks = r.callbacks + 1,
              !.status = [kind |-> "cancelled", code |-> 1]]

\* The operation after its transport call completed with `code`.
AfterTransportDone(r, code, clock) ==
    IF r.cancelled
    THEN \* cancelled while in flight: the callback is suppressed
         [r EXCEPT !.state = "cancelled", !.last = code,
                   !.outstanding = r.outstanding - 1]
    ELSE IF code = 0 \/ ~ShouldRetry(r.idempotent, r.retry, code, clock)
    THEN \* the callback runs with the response or the terminal failure
         [r EXCEPT !.state = "done", !.last = code,
                   !.outstanding = r.outstanding - 1,
                   !.retry = IF code = 0 \/ ~r.idempotent
                             THEN r.retry
                             ELSE AfterFailure(r.retry, code),
                   !.callbacks = r.callbacks + 1,
                   !.status = FinalStatus(r.idempotent, code)]
    ELSE \* schedule the backoff timer
         [r EXCEPT !.state = "timer", !.last = code,
                   !.outstanding = r.outstanding - 1,
                   !.retry = AfterFailure(r.retry, code),
                   !.timer_at = clock + OnCompletion(r.backoff),
                   !.backoff = AfterCompletion(r.backoff)]

\* The backoff timer of the operation has expired.
TimerDue(r, clock) == r.state = "timer" /\ clock >= r.timer_at

\* The operation after the application cancelled it: a pending timer never
\* fires, a transport call in flight is left to complete.
AfterCancel(r) ==
    [r EXCEPT !.cancelled = TRUE,
              !.timer_at = 0,
              !.state = IF r.state = "timer" THEN "cancelled" ELSE r.state]

\* The transport call of operation o completes with `code`.
TransportDone(o, code) ==
    /\ op[o].state = "inflight"
    /\ op[o].outstanding > 0
    /\ op' = [op EXCEPT ![o] = AfterTransportDone(op[o], code, now)]
    /\ UNCHANGED <<now, credentials, prototypes, others>>

\* The backoff timer of operation o fires: the next attempt starts.
TimerFired(o) ==
    /\ TimerDue(op[o], now)
    /\ op' = [op EXCEPT ![o].state = "inflight",
                        ![o].timer_at = 0,
                        ![o].attempts = op[o].attempts + 1,
                        ![o].outstanding = op[o].outstanding + 1]
    /\ UNCHANGED <<now, credentials, prototypes, others>>

\* The application cancels operation o.
Cancel(o) ==
    /\ op[o].state \in {"inflight", "timer"}
    /\ ~op[o].cancelled
    /\ op' = [op EXCEPT ![o] = AfterCancel(op[o])]
    /\ UNCHANGED <<now, credentials, prototypes, others>>

\* One TableAdmin object with NumOps asynchronous operations.
AsyncInit ==
    /\ InitCredentials
    /\ InitTableAdmin
    /\ InitOthers
    /\ retry_policy_ = DefaultRetryPolicy
    /\ backoff_policy_ = DefaultBackoffPolicy
    /\ polling_policy_ = DefaultPollingPolicy
    /\ rpc_retry_policy_ \in RetryPolicies

AsyncNext ==
    \/ \E o \in Ops : AsyncGetTable(o)
    \/ \E o \in Ops : AsyncNonIdempotent(o)
    \/ \E o \in Ops, code \in TransportCodes : TransportDone(o, code)
    \/ \E o \in Ops : TimerFired(o)
    \/ \E o \in Ops : Cancel(o)
    \/ Tick

AsyncSpec == AsyncInit /\ [][AsyncNext]_vars

\* ------------------------------------------- one backoff policy on its own
\* The policies under test: any valid parameters within the bounds, and the
\* policy the AuthorizedUserCredentials constructor installs.
ValidBackoffPolicies ==
    {b \in {ExponentialBackoffPolicy(i, m, k) :
               i \in 1..MaxInitialDelay, m \in 1..MaxMaximumDelay,
               k \in 2..MaxScaling} : b.initial <= b.maximum}

BackoffPolicies == ValidBackoffPolicies \cup {StorageDefaultBackoffPolicy}

\* backoff_policy_->OnCompletion(), line 156: the delay is handed out and the
\* policy moves on.
OnCompletionCall ==
    /\ Len(delays) < MaxDelays
    /\ delays' = Append(delays, OnCompletion(backoff_policy_))
    /\ backoff_policy_' = AfterCompletion(backoff_policy_)
    /\ UNCHANGED <<now, mu_, cache, retry_policy_, pc, result, net, history,
                   admin, poll, ctor, storage>>

BackoffInit ==
    /\ InitCredentials
    /\ InitTableAdmin
    /\ poll = [o \in Waits |-> IdlePoll]
    /\ ctor = NoCtor
    /\ delays = << >>
    /\ InitStorage
    /\ retry_policy_ = DefaultRetryPolicy
    /\ backoff_policy_ \in BackoffPolicies
    /\ rpc_retry_policy_ = DefaultRetryPolicy
    /\ polling_policy_ = DefaultPollingPolicy

BackoffNext == OnCompletionCall

BackoffSpec == BackoffInit /\ [][BackoffNext]_vars

\* ------------------------------------------------ waiting for consistency
\* TableAdmin::WaitForConsistencyCheckHelper is declared in table_admin.h
\* (lines 270-273) and defined elsewhere; the loop follows the design
\* document: send one check, return the result if the operation is done,
\* else sleep for the wait period and check again until the policy exhausts.

\* What a check may answer: done or not, with some content.
CheckResponses == {[done |-> d, value |-> v] : d \in BOOLEAN, v \in {"x", "y"}}

DeadlineExceeded == [kind |-> "deadline-exceeded", value |-> "-"]

\* Variants with a defect: the first response, not the last, is returned;
\* running out of polls is reported as success.
PollResult_First(responses) == [kind |-> "ok", value |-> responses[1].value]

ExhaustedResult_Ok(responses) ==
    [kind |-> "ok", value |-> responses[Len(responses)].value]

\* What the wait returns when the last of `responses` says done ...
PollResult(responses) ==
    [kind |-> "ok", value |-> responses[Len(responses)].value]

\* ... and when the policy is exhausted.
ExhaustedResult(responses) == DeadlineExceeded

\* The wait starts: the polling policy is cloned and the first check is sent.
WaitForConsistencyCheck(o) ==
    /\ poll[o].state = "idle"
    /\ poll' = [poll EXCEPT ![o] =
                   [IdlePoll EXCEPT
                       !.state = "checking",
                       !.policy = ClonePolling(polling_policy_, now),
                       !.requests = 1]]
    /\ UNCHANGED <<now, credentials, admin, ctor, delays, storage>>

\* The check in progress is answered.
CheckAnswered(o, resp) ==
    /\ poll[o].state = "checking"
    /\ LET r == poll[o]
           all == Append(r.responses, resp)
           policy == AfterNotDone(r.policy)
       IN poll' = [poll EXCEPT ![o] =
              IF resp.done
              THEN [r EXCEPT !.state = "returned", !.responses = all,
                             !.result = PollResult(all)]
              ELSE IF PollingExhausted(policy, now)
              THEN [r EXCEPT !.state = "returned", !.responses = all,
                             !.policy = policy,
                             !.result = ExhaustedResult(all)]
              ELSE [r EXCEPT !.state = "sleeping", !.responses = all,
                             !.policy = policy]]
    /\ UNCHANGED <<now, credentials, admin, ctor, delays, storage>>

\* The thread sleeps for the wait period; then, unless the policy ran out
\* meanwhile, it sends the next check.
PollSleep(o) ==
    /\ poll[o].state = "sleeping"
    /\ LET r == poll[o]
           clock == now + WaitPeriod(r.policy)
           policy == AfterWaitPeriod(r.policy)
       IN /\ now' = clock
          /\ poll' = [poll EXCEPT ![o] =
                 IF PollingExhausted(policy, clock)
                 THEN [r EXCEPT !.state = "returned", !.policy = policy,
                                !.result = ExhaustedResult(r.responses)]
                 ELSE [r EXCEPT !.state = "checking", !.policy = policy,
                                !.requests = r.requests + 1]]
    /\ UNCHANGED <<credentials, admin, ctor, delays, storage>>

PollingPolicies ==
    {GenericPollingPolicy(r, DefaultBackoffPolicy) :
        r \in {LimitedErrorCountRetryPolicy(n) : n \in 1..MaxPolls}
                 \cup {LimitedTimeRetryPolicy(RetryPeriod, 0)}}

\* One TableAdmin object on which NumWaits threads wait for consistency.
PollInit ==
    /\ InitCredentials
    /\ InitTableAdmin
    /\ InitOthers
    /\ retry_policy_ = DefaultRetryPolicy
    /\ backoff_policy_ = DefaultBackoffPolicy
    /\ rpc_retry_policy_ = DefaultRetryPolicy
    /\ polling_policy_ \in PollingPolicies

PollNext ==
    \/ \E o \in Waits : WaitForConsistencyCheck(o)
    \/ \E o \in Waits, resp \in CheckResponses : CheckAnswered(o, resp)
    \/ \E o \in Waits : PollSleep(o)
    \/ Tick

PollSpec == PollInit /\ [][PollNext]_vars

\* Every check is answered and a sleeping thread wakes up.
PollFairness ==
    \A o \in Waits :
        /\ WF_vars(\E resp \in CheckResponses : CheckAnswered(o, resp))
        /\ WF_vars(PollSleep(o))

FairPollSpec == PollSpec /\ PollFairness

\* ------------------------------------------ constructors with overrides
\* A policy override as the variadic constructors receive it: the overload
\* of ChangePolicy / Apply it selects, and the policy object.
Override(category, policy) == [category |-> category, policy |-> policy]

\* Policy objects a caller may pass: new ones and ones that were used.
RetryOverrides ==
    RetryPolicies
        \cup {AfterFailure(LimitedErrorCountRetryPolicy(MaxLimit), 14)}
BackoffOverrides ==
    {DefaultBackoffPolicy, AfterCompletion(DefaultBackoffPolicy),
     ExponentialBackoffPolicy(MaxBackoff, MaxBackoff, 2)}
PollingOverrides ==
    {GenericPollingPolicy(r, b) :
        r \in {LimitedErrorCountRetryPolicy(1),
               LimitedTimeRetryPolicy(RetryPeriod, 0)},
        b \in {DefaultBackoffPolicy, AfterCompletion(DefaultBackoffPolicy)}}

CredentialsOverrides ==
    {Override("retry", p) : p \in RetryOverrides}
        \cup {Override("backoff", p) : p \in BackoffOverrides}
TableAdminOverrides ==
    CredentialsOverrides \cup {Override("polling", p) : p \in PollingOverrides}

\* All sequences over S of at most n elements.
SeqUpTo(S, n) == UNION {[1..k -> S] : k \in 0..n}

\* TableAdmin::ChangePolicy, table_admin.h lines 214-222; `admin_` holds
\* the three policy members.
ChangePolicy(admin_, override, clock) ==
    IF override.category = "retry"
    THEN [admin_ EXCEPT !.rpc_retry_policy_ = CloneRetry(override.policy, clock)]
    ELSE IF override.category = "backoff"
    THEN [admin_ EXCEPT !.rpc_backoff_policy_ = CloneBackoff(override.policy)]
    ELSE [admin_ EXCEPT !.polling_policy_ = ClonePolling(override.policy, clock)]

\* A variant with a defect: the rest of the overrides is applied before the
\* first one.
RECURSIVE ChangePolicies_TailFirst(_, _, _)
ChangePolicies_TailFirst(admin_, args, clock) ==
    IF args = << >> THEN admin_
    ELSE ChangePolicy(ChangePolicies_TailFirst(admin_, Tail(args), clock),
                      Head(args), clock)

\* TableAdmin::ChangePolicies, table_admin.h lines 224-229.
RECURSIVE ChangePolicies(_, _, _)
ChangePolicies(admin_, args, clock) ==
    IF args = << >> THEN admin_
    ELSE ChangePolicies(ChangePolicy(admin_, Head(args), clock),
                        Tail(args), clock)

\* AuthorizedUserCredentials::Apply, lines 162-164; `creds` holds the two
\* policy members.
Apply(creds, override, clock) ==
    IF override.category = "retry"
    THEN [creds EXCEPT !.retry_policy_ = CloneRetry(override.policy, clock)]
    ELSE [creds EXCEPT !.backoff_policy_ = CloneBackoff(override.policy)]

\* AuthorizedUserCredentials::ApplyPolicies, lines 166-172.
RECURSIVE ApplyPolicies(_, _, _)
ApplyPolicies(creds, args, clock) ==
    IF args = << >> THEN creds
    ELSE ApplyPolicies(Apply(creds, Head(args), clock), Tail(args), clock)

\* TableAdmin(client, instance_id, policies...), table_admin.h lines 90-95:
\* the delegated constructor has installed the defaults.
ConstructTableAdmin ==
    /\ ctor.target = "TableAdmin"
    /\ ~ctor.built
    /\ LET made == ChangePolicies(
                       [rpc_retry_policy_ |-> rpc_retry_policy_,
                        rpc_backoff_policy_ |-> rpc_backoff_policy_,
                        polling_policy_ |-> polling_policy_],
                       ctor.args, now)
       IN /\ rpc_retry_policy_' = made.rpc_retry_policy_
          /\ rpc_backoff_policy_' = made.rpc_backoff_policy_
          /\ polling_policy_' = made.polling_policy_
    /\ ctor' = [ctor EXCEPT !.built = TRUE, !.at = now]
    /\ UNCHANGED <<now, credentials, op, poll, delays, storage>>

\* AuthorizedUserCredentials(contents, oauth_server, policies...), lines
\* 87-93, after the delegated constructor.
ConstructCredentials ==
    /\ ctor.target = "AuthorizedUserCredentials"
    /\ ~ctor.built
    /\ LET made == ApplyPolicies(
                       [retry_policy_ |-> retry_policy_,
                        backoff_policy_ |-> backoff_policy_],
                       ctor.args, now)
       IN /\ retry_policy_' = made.retry_policy_
          /\ backoff_policy_' = made.backoff_policy_
    /\ ctor' = [ctor EXCEPT !.built = TRUE, !.at = now]
    /\ UNCHANGED <<now, mu_, cache, pc, result, net, history, admin, poll,
                   delays, storage>>

\* The defaults are installed; the overrides wait to be applied.
ConstructInit ==
    /\ InitCredentials
    /\ InitTableAdmin
    /\ poll = [o \in Waits |-> IdlePoll]
    /\ delays = << >>
    /\ InitStorage
    /\ retry_policy_ = DefaultRetryPolicy
    /\ backoff_policy_ = DefaultBackoffPolicy
    /\ rpc_retry_policy_ = DefaultRetryPolicy
    /\ polling_policy_ = DefaultPollingPolicy
    /\ \/ \E args \in SeqUpTo(TableAdminOverrides, MaxOverrides) :
             ctor = [target |-> "TableAdmin", args |-> args,
                     built |-> FALSE, at |-> 0]
       \/ \E args \in SeqUpTo(CredentialsOverrides, MaxOverrides) :
             ctor = [target |-> "AuthorizedUserCredentials", args |-> args,
                     built |-> FALSE, at |-> 0]

ConstructNext ==
    \/ ConstructTableAdmin
    \/ ConstructCredentials
    \/ Tick

ConstructSpec == ConstructInit /\ [][ConstructNext]_vars

\* ------------------------------------------- application default credentials
\* google_credentials.cc, lines 31-64.  The inputs of a call: the path
\* GoogleAdcFilePathOrEmpty() returns, whether the file at that path can be
\* opened, and its contents.  Of the contents the function looks at three
\* things: whether they parse as JSON, whether the document is an object,
\* and the value of "type".
Document(parsable, object, has_type, type) ==
    [parsable |-> parsable, object |-> object, has_type |-> has_type,
     type |-> type]

AdcPaths == {"", "/home/user/adc.json", "relative/adc.json"}

TypeValues ==
    {Str("authorized_user"), Str("service_account"), Str("external_account"),
     Str("Authorized_User"), Str(""), Num(7), Null}

Documents ==
    {Document(FALSE, FALSE, FALSE, Null),      \* not JSON
     Document(TRUE, FALSE, FALSE, Null),       \* JSON, but not an object
     Document(TRUE, TRUE, FALSE, Null)}        \* an object without "type"
        \cup {Document(TRUE, TRUE, TRUE, v) : v \in TypeValues}

RuntimeError(what) == [kind |-> "runtime_error", class |-> "-", what |-> what]

\* What nlohmann::json raises when a value is not of the type asked for, or
\* when value() is called on a document that is not an object.
JsonTypeError == [kind |-> "json_type_error", class |-> "-", what |-> ""]

\* std::make_shared<Class<>>(contents, path), lines 52 and 55.  The two
\* classes of namespace oauth2 are not part of the sources at hand; what is
\* kept of the object is its class and what it was made from.
MakeCredentials(class, contents, path) ==
    [kind |-> "credentials", class |-> class, what |-> path]

\* cred_json.value("type", "no type given"), line 50: the default when the
\* key is missing, the string when the value is one.  The last field tells
\* whether the call raised a type error instead.
CredType(cred_json) ==
    IF ~cred_json.object THEN <<"", TRUE>>
    ELSE IF ~cred_json.has_type THEN <<"no type given", FALSE>>
    ELSE IF cred_json.type.type = "string" THEN <<cred_json.type.str, FALSE>>
    ELSE <<"", TRUE>>

\* The outcome of GoogleDefaultCredentials, lines 31-64.
DefaultCredentials(path, openable, contents) ==
    IF path # ""
    THEN IF ~openable
         THEN RuntimeError("Cannot open credentials file " \o path)
         ELSE IF ~contents.parsable
         THEN RuntimeError("Invalid contents in credentials file " \o path)
         ELSE LET cred_type == CredType(contents)
              IN IF cred_type[2] THEN JsonTypeError
                 ELSE IF cred_type[1] = "authorized_user"
                 THEN MakeCredentials("AuthorizedUserCredentials",
                                      contents, path)
                 ELSE IF cred_type[1] = "service_account"
                 THEN MakeCredentials("ServiceAccountCredentials",
                                      contents, path)
                 ELSE RuntimeError(
                          "Unsupported credential type (" \o cred_type[1]
                              \o ") when reading Application Default "
                              \o "Credentials file from " \o path \o ".")
    ELSE RuntimeError("No eligible credential types were found to use as "
                          \o "default credentials.")

\* A call of GoogleDefaultCredentials().
GoogleDefaultCredentials ==
    /\ adc.state = "idle"
    /\ LET made == DefaultCredentials(adc.path, adc.openable, adc.contents)
       IN adc' = [adc EXCEPT
                     !.state = IF made.kind = "credentials"
                               THEN "returned" ELSE "raised",
                     !.result = made]
    /\ UNCHANGED <<now, credentials, admin, poll, ctor, delays, hv>>

\* The environment of one call.
AdcInit ==
    /\ InitCredentials
    /\ InitTableAdmin
    /\ poll = [o \in Waits |-> IdlePoll]
    /\ ctor = NoCtor
    /\ delays = << >>
    /\ hv = NoValidator
    /\ retry_policy_ = DefaultRetryPolicy
    /\ backoff_policy_ = DefaultBackoffPolicy
    /\ rpc_retry_policy_ = DefaultRetryPolicy
    /\ polling_policy_ = DefaultPollingPolicy
    /\ \E path \in AdcPaths, openable \in BOOLEAN, contents \in Documents :
           adc = [NoAdc EXCEPT !.path = path, !.openable = openable,
                               !.contents = contents]

AdcNext == GoogleDefaultCredentials

AdcSpec == AdcInit /\ [][AdcNext]_vars

\* ------------------------------------------------------------ MD5 validation
\* hash_validator.cc.  A payload is a string over two byte values.
ByteOf(c) == IF c = "a" THEN 1 ELSE 2

\* OpenSSL's MD5_Init, MD5_Update and MD5_Final.  The digest is wide enough
\* that payloads of at most MaxPayload bytes do not collide: the context is
\* the bytes taken in so far, read as a number.
MD5_Init == 0

RECURSIVE MD5_Update(_, _, _)
MD5_Update(context, data, size) ==
    IF size = 0 THEN context
    ELSE MD5_Update(context, data, size - 1) * 3
             + ByteOf(SubSeq(data, size, size))

MD5_Final(context) == context

\* OpenSslUtils::Base64Encode of a digest: two characters of the base64
\* alphabet and the padding.
Base64Chars ==
    "ABCDEFGHIJKLMNOPQRSTUVWXYZabcdefghijklmnopqrstuvwxyz0123456789+/"

Base64Encode(hash) ==
    SubSeq(Base64Chars, (hash \div 64) + 1, (hash \div 64) + 1)
        \o SubSeq(Base64Chars, (hash % 64) + 1, (hash % 64) + 1) \o "=="

\* ComputeMD5Hash of the tests: the hash of a payload given at once.
ComputeMD5Hash(payload) ==
    Base64Encode(MD5_Final(MD5_Update(MD5_Init, payload, Len(payload))))

\* std::string::find and std::string::substr; positions count from 0.
npos == -1

Find(str, needle) ==
    LET hits == {i \in 1..(Len(str) - Len(needle) + 1) :
                    SubSeq(str, i, i + Len(needle) - 1) = needle}
    IN IF hits = {} THEN npos
       ELSE (CHOOSE i \in hits : \A j \in hits : i <= j) - 1

Substr(str, pos) == SubSeq(str, pos + 1, Len(str))

\* All payloads of at most n bytes.
RECURSIVE PayloadsUpTo(_)
PayloadsUpTo(n) ==
    IF n = 0 THEN {""}
    ELSE LET shorter == PayloadsUpTo(n - 1)
         IN shorter \cup {x \o c : x \in shorter, c \in {"a", "b"}}

\* What one Update call may be given.
Chunks == PayloadsUpTo(2)

\* What the server may say about the object: the md5 hash of some content,
\* in the object's metadata or in an x-goog-hash header, alone or next to
\* the crc32c checksum, in either order.
ServerHashes == {ComputeMD5Hash(x) : x \in PayloadsUpTo(MaxPayload)}

Crc32c == "crc32c=AAAAAA=="

HeaderValues(h) ==
    {"md5=" \o h, Crc32c \o ",md5=" \o h, "md5=" \o h \o "," \o Crc32c}

HeaderKeys == {"x-goog-hash", "x-goog-generation"}

\* Line 59: the library is built with exceptions.
GOOGLE_CLOUD_CPP_HAVE_EXCEPTIONS == TRUE

\* A variant with a defect: a hash that was never received counts as a
\* mismatch.
HashMismatch_EmptyCounts(received_hash, computed) ==
    GOOGLE_CLOUD_CPP_HAVE_EXCEPTIONS /\ received_hash # computed

\* Lines 59-68: whether Finish throws HashMismatchError.
HashMismatch(received_hash, computed) ==
    /\ GOOGLE_CLOUD_CPP_HAVE_EXCEPTIONS
    /\ received_hash # "" /\ received_hash # computed

\* What the model keeps besides the validator's members: `expected`, what
\* has been streamed so far, as the tests do; `md5_hash`, the md5 hash the
\* server reported last; `last`, the member function called last and the
\* md5 hash that call carried, empty if none.
Called(name, hash) == [call |-> name, hash |-> hash]

\* MD5HashValidator::Update, lines 29-31.
Update(payload) ==
    /\ hv.state = "open"
    /\ Len(hv.expected) + Len(payload) <= MaxPayload
    /\ hv' = [hv EXCEPT
                 !.context_ = MD5_Update(hv.context_, payload, Len(payload)),
                 !.expected = hv.expected \o payload,
                 !.last = Called("Update", "")]
    /\ UNCHANGED <<now, credentials, admin, poll, ctor, delays, adc>>

\* A variant with a defect: empty metadata wipes the received hash.
AfterProcessMetadata_AlwaysReplace(v, meta_md5_hash) ==
    [v EXCEPT !.received_hash_ = meta_md5_hash]

\* The validator after ProcessMetadata, lines 33-41.
AfterProcessMetadata(v, meta_md5_hash) ==
    IF meta_md5_hash = "" THEN v
    ELSE [v EXCEPT !.received_hash_ = meta_md5_hash]

\* The validator after ProcessHeader, lines 43-53.
AfterProcessHeader(v, key, value) ==
    LET pos == Find(value, "md5=")
    IN IF key # "x-goog-hash" THEN v
       ELSE IF pos = npos THEN v
       ELSE [v EXCEPT !.received_hash_ = Substr(value, pos + 4)]

\* MD5HashValidator::ProcessMetadata.
ProcessMetadata(meta_md5_hash) ==
    /\ hv.state = "open"
    /\ hv' = [AfterProcessMetadata(hv, meta_md5_hash) EXCEPT
                 !.md5_hash = IF meta_md5_hash # "" THEN meta_md5_hash ELSE @,
                 !.last = Called("ProcessMetadata", meta_md5_hash)]
    /\ UNCHANGED <<now, credentials, admin, poll, ctor, delays, adc>>

\* MD5HashValidator::ProcessHeader.  h is the md5 hash the header value
\* lists, empty if it lists none; a header with another key is not a hash
\* header and carries none.
ProcessHeader(key, value, h) ==
    /\ hv.state = "open"
    /\ LET carried == IF key = "x-goog-hash" THEN h ELSE ""
       IN hv' = [AfterProcessHeader(hv, key, value) EXCEPT
                    !.md5_hash = IF carried # "" THEN carried ELSE @,
                    !.last = Called("ProcessHeader", carried)]
    /\ UNCHANGED <<now, credentials, admin, poll, ctor, delays, adc>>

\* MD5HashValidator::Finish, lines 55-71.
Finish ==
    /\ hv.state = "open"
    /\ LET computed == Base64Encode(MD5_Final(hv.context_))
       IN hv' = [hv EXCEPT
                    !.state = "finished",
                    !.result =
                        [kind |-> IF HashMismatch(hv.received_hash_, computed)
                                  THEN "HashMismatchError" ELSE "Result",
                         received |-> hv.received_hash_,
                         computed |-> computed]]
    /\ UNCHANGED <<now, credentials, admin, poll, ctor, delays, adc>>

\* MD5HashValidator(), line 27.
HashInit ==
    /\ InitCredentials
    /\ InitTableAdmin
    /\ poll = [o \in Waits |-> IdlePoll]
    /\ ctor = NoCtor
    /\ delays = << >>
    /\ adc = NoAdc
    /\ retry_policy_ = DefaultRetryPolicy
    /\ backoff_policy_ = DefaultBackoffPolicy
    /\ rpc_retry_policy_ = DefaultRetryPolicy
    /\ polling_policy_ = DefaultPollingPolicy
    /\ hv = [NoValidator EXCEPT !.state = "open", !.context_ = MD5_Init]

HashNext ==
    \/ \E payload \in Chunks : Update(payload)
    \/ \E h \in ServerHashes \cup {""} : ProcessMetadata(h)
    \/ \E key \in HeaderKeys, h \in ServerHashes :
           \/ \E value \in HeaderValues(h) : ProcessHeader(key, value, h)
           \/ ProcessHeader(key, Crc32c, "")
    \/ Finish

HashSpec == HashInit /\ [][HashNext]_vars

\* Progress the scheduler and the network give: a runnable thread runs, a
\* request is answered.  Nobody is obliged to call, and a wait on cv_ need
\* not wake up by itself.
Fairness ==
    \A t \in Threads :
        /\ WF_vars(Lock(t))
        /\ WF_vars(RefreshEntry(t))
        /\ WF_vars(LoopHead(t))
        /\ WF_vars(\E r \in Responses : HandleResponse(t, r))
        /\ WF_vars(BackoffSleep(t))

FairSpec == Spec /\ Fairness

\* --------------------------------------------------------------- properties
InCall(t) == pc[t] \in {"lock", "refresh", "loop", "inflight", "backoff", "wait"}
Returned(t) == pc[t] \in {"done", "threw"}
InFlight == {t \in Threads : net[t] # NoMessage}

\* C1: at most one request to the token endpoint is in flight at any time,
\* and the thread it belongs to owns mu_.
C1_OneRequestInFlight ==
    /\ Cardinality(InFlight) <= 1
    /\ \A t \in InFlight : mu_ = {t}

\* A request is in flight while another thread is inside AuthorizationHeader.
C1_Witness ==
    \E t, u \in Threads : t # u /\ net[t] = Pending /\ pc[u] = "lock"

\* C2: when all threads call while the cache is stale and the endpoint
\* answers 200, exactly one request is made, no caller is left blocked, and
\* all callers return the same header.
C2_Scenario ==
    \A t \in Threads : ncalls[t] <= 1 /\ seen[t] \subseteq {"ok"}

C2_OneRefreshForAllCallers ==
    C2_Scenario =>
        /\ requests <= 1
        /\ \A t \in Threads : pc[t] # "wait"
        /\ (\A t \in Threads : pc[t] = "done") =>
               /\ requests = 1
               /\ \A t, u \in Threads : result[t] = result[u]

\* C3: when Refresh finds the cached expiration in the future, the call
\* returns the cached header, sends nothing and leaves the cache alone.
C3_FreshCacheReturnsWithoutRequest ==
    [][\A t \in Threads :
          (pc[t] = "refresh" /\ now < expiration_time_ /\ pc'[t] # pc[t]) =>
              /\ pc'[t] = "done"
              /\ result'[t] = authorization_header_
              /\ requests' = requests
              /\ attempts'[t] = attempts[t]
              /\ net' = net
              /\ UNCHANGED cache]_vars

\* A call has returned a cached header without having sent a request.
C3_Witness ==
    \E t \in Threads :
        /\ pc[t] = "done" /\ attempts[t] = 0
        /\ result[t] = authorization_header_
        /\ authorization_header_ # ""

\* C4: once the retry budget is exhausted, every thread waiting inside
\* AuthorizationHeader is woken up and returns.
C4_ExhaustionWakesCallers ==
    \A t \in Threads :
        (pc[t] = "wait" /\ IsExhausted(retry_policy_, now)) ~> ~InCall(t)

\* C5: every refresh runs with a retry policy freshly cloned from the
\* configured one: when a call finds the cache stale and enters the retry
\* loop, the policy it is about to use has the whole budget, counted from
\* that moment.
C5_FreshPolicyPerRefresh ==
    [][\A t \in Threads :
          (pc[t] = "refresh" /\ pc'[t] = "loop") =>
              retry_policy_' = CloneRetry(retry_policy_, now)]_vars

\* C6: header and expiration change only together, by the thread that owns
\* mu_, and both to the values of one fully parsed 200 response.
C6_HeaderAndExpirationPublishedTogether ==
    [][(authorization_header_' # authorization_header_
            \/ expiration_time_' # expiration_time_) =>
          \E t \in Threads, r \in Responses :
              /\ mu_ = {t}
              /\ pc[t] = "inflight"
              /\ r.status_code = 200
              /\ ~ParseThrows(r.payload)
              /\ authorization_header_' = Header(r.payload)
              /\ expiration_time_' = NewExpiration(r.payload, now)]_vars

\* A second response has been published over the first.
C6_Witness ==
    /\ authorization_header_ = Header(GoodShort)
    /\ \E t \in Threads : result[t] = Header(GoodLong)

\* C7: a 200 response that cannot be fully parsed leaves header and
\* expiration as they were.
C7_ParseFailureKeepsCache ==
    [][\A t \in Threads :
          (/\ pc[t] = "inflight"
           /\ "badbody" \in seen'[t] \ seen[t]) => UNCHANGED cache]_vars

\* A parse failed while a token was cached.
C7_Witness ==
    \E t \in Threads :
        /\ pc[t] = "threw"
        /\ authorization_header_ = Header(GoodLong)
        /\ expiration_time_ > 0

\* C8: a permanent error ends the call: the call is over and no further
\* request is made for it.
C8_PermanentErrorEndsOperation ==
    [][\A t \in Threads :
          ("permanent" \in seen[t] /\ "permanent" \in seen'[t]) =>
              /\ attempts'[t] = attempts[t]
              /\ ~InCall(t)]_vars

\* C9: with a count-bounded policy of limit N, a refresh that saw only
\* transient failures has made exactly N requests when it gives up.
C9_ExactlyLimitAttempts ==
    \A t \in Threads :
        (/\ retry_policy_.kind = "count"
         /\ seen[t] = {"transient"}
         /\ pc[t] = "wait") => attempts[t] = retry_policy_.limit

\* C10: a non-idempotent operation is never retried: it makes one attempt,
\* and a failure of that attempt is reported as it is, whatever the retry
\* policy would still allow.
C10_NonIdempotentNeverRetried ==
    \A o \in Ops :
        (op[o].state # "idle" /\ ~op[o].idempotent) =>
            /\ op[o].attempts = 1
            /\ op[o].state # "timer"
            /\ (op[o].state = "done" /\ op[o].last # 0) =>
                   op[o].status = [kind |-> "as-is", code |-> op[o].last]

\* A non-idempotent operation ended after one transient failure although
\* its retry policy had budget left.
C10_Witness ==
    \E o \in Ops :
        /\ ~op[o].idempotent /\ op[o].state = "done"
        /\ op[o].attempts = 1 /\ op[o].callbacks = 1
        /\ IsRetryable(op[o].last)
        /\ OnFailure(op[o].retry, op[o].last, now)

\* C11: the delays one backoff policy returns never exceed its maximum and
\* never decrease; the first is the initial delay and each later one is the
\* previous one times the scaling factor, or the maximum once that product
\* passes it.  With 10ms, 5min and 2 they are 10, 20, 40, ... capped at 5min.
C11_BackoffDelays ==
    LET b == backoff_policy_
        n == Len(delays)
    IN /\ \A i \in 1..n : delays[i] <= b.maximum
       /\ n >= 1 => delays[1] = b.initial
       /\ \A i \in 1..(n - 1) :
             /\ delays[i] <= delays[i + 1]
             /\ delays[i + 1] =
                    IF delays[i] * b.scaling <= b.maximum
                    THEN delays[i] * b.scaling ELSE b.maximum
       /\ (b.initial = 10 /\ b.maximum = 300000 /\ b.scaling = 2) =>
             \A i \in 1..n :
                 delays[i] = IF i <= 15 THEN 10 * 2^(i - 1) ELSE 300000

\* The policy of the credentials constructor has grown from 10ms over 40ms
\* up to the cap of 5 minutes.
C11_Witness ==
    /\ Len(delays) = MaxDelays
    /\ delays[1] = 10 /\ delays[3] = 40
    /\ delays[15] = 163840 /\ delays[16] = 300000 /\ delays[MaxDelays] = 300000

\* The not-done responses among those a wait has received.
NotDone(o) ==
    {i \in 1..Len(poll[o].responses) : ~poll[o].responses[i].done}

\* C12: a wait that receives k not-done responses and then a done one has
\* sent exactly k+1 checks and returns the content of the last response; as
\* long as the policy is not exhausted every not-done response is followed
\* by one more check.
C12_PollUntilDone ==
    \A o \in Waits :
        LET r == poll[o]
            n == Len(r.responses)
            k == Cardinality(NotDone(o))
        IN /\ r.requests = n + (IF r.state = "checking" THEN 1 ELSE 0)
           /\ (n >= 1 /\ r.responses[n].done) =>
                 /\ r.state = "returned"
                 /\ NotDone(o) = 1..k
                 /\ r.requests = k + 1
                 /\ r.result = [kind |-> "ok", value |-> r.responses[n].value]
           /\ (r.state = "returned" /\ r.result.kind = "ok") =>
                 (n >= 1 /\ r.responses[n].done)

\* A wait returned the last response after two not-done responses with a
\* different content.
C12_Witness ==
    \E o \in Waits :
        /\ poll[o].state = "returned"
        /\ Len(poll[o].responses) = 3
        /\ poll[o].responses[1].value = "x"
        /\ poll[o].result = [kind |-> "ok", value |-> "y"]

\* C13: a wait that only receives not-done responses ends: no check is sent
\* once the policy is exhausted, a count-bounded policy of limit N allows N
\* checks, the wait returns deadline-exceeded, and it always returns.
C13_PollingTerminates ==
    /\ [](\A o \in Waits :
            LET r == poll[o]
            IN /\ r.policy.retry.kind = "count" =>
                      r.requests <= r.policy.retry.limit
               /\ (r.state = "returned" /\ NotDone(o) = 1..Len(r.responses))
                      => r.result = DeadlineExceeded)
    /\ [][\A o \in Waits :
            poll'[o].requests > poll[o].requests =>
                ~PollingExhausted(poll'[o].policy, now')]_vars
    /\ \A o \in Waits :
          (poll[o].state \in {"checking", "sleeping"})
              ~> (poll[o].state = "returned")

\* A wait gave up with deadline-exceeded after two not-done responses.
C13_Witness ==
    \E o \in Waits :
        /\ poll[o].state = "returned"
        /\ poll[o].result = DeadlineExceeded
        /\ Cardinality(NotDone(o)) = 2
        /\ poll[o].requests = 2
        /\ poll[o].policy.retry.kind = "time"

\* The operations started with AsyncGetTable.
Started == {o \in Ops : op[o].state # "idle" /\ op[o].idempotent}

\* C14: an operation started with AsyncGetTable and not cancelled runs its
\* callback exactly once, when it is over: with the response of the last
\* attempt, or with the failure after which no retry is allowed, and with
\* no transport call left in flight.
C14_CallbackExactlyOnce ==
    \A o \in Started :
        ~op[o].cancelled =>
            /\ op[o].callbacks = (IF op[o].state = "done" THEN 1 ELSE 0)
            /\ op[o].state = "done" =>
                  /\ op[o].outstanding = 0
                  /\ op[o].status.code = op[o].last
                  /\ op[o].status.kind = "ok" <=> op[o].last = 0
                  /\ op[o].last # 0 =>
                        \/ ~IsRetryable(op[o].last)
                        \/ IsExhausted(op[o].retry, now)

\* The callback ran once, with the success of a second attempt.
C14_Witness ==
    \E o \in Started :
        /\ op[o].state = "done" /\ ~op[o].cancelled
        /\ op[o].attempts = 2 /\ op[o].last = 0
        /\ op[o].callbacks = 1

\* C15: the transport calls of one operation do not overlap: at most one
\* is in flight, and a further attempt starts only from the backoff timer,
\* after the previous call has completed and the timer has expired.
C15_AttemptsSequential ==
    /\ [](\A o \in Ops :
             /\ op[o].outstanding <= 1
             /\ op[o].outstanding = 1 <=> op[o].state = "inflight")
    /\ [][\A o \in Ops :
             op'[o].attempts # op[o].attempts =>
                 /\ op'[o].attempts = op[o].attempts + 1
                 /\ op[o].outstanding = 0
                 /\ op[o].state \in {"idle", "timer"}
                 /\ op[o].state = "timer" => now >= op[o].timer_at]_vars

\* A second attempt is in flight.
C15_Witness ==
    \E o \in Ops :
        /\ op[o].attempts = 2 /\ op[o].state = "inflight"
        /\ op[o].outstanding = 1 /\ IsRetryable(op[o].last)

\* C16: once an operation is cancelled it starts no further attempt, not
\* even from a backoff timer that was pending, and its callback never runs.
C16_CancelStopsRetries ==
    [][\A o \in Ops :
          (op[o].cancelled \/ op'[o].cancelled) =>
              /\ op'[o].cancelled
              /\ op'[o].attempts = op[o].attempts
              /\ op'[o].outstanding <= op[o].outstanding
              /\ op'[o].state # "timer"
              /\ op'[o].callbacks = 0]_vars

\* An operation was cancelled while its backoff timer was pending, and the
\* time for which the timer was set has come.
C16_Witness ==
    \E o \in Ops :
        /\ op[o].state = "cancelled" /\ op[o].attempts = 1
        /\ op[o].backoff # CloneBackoff(op[o].backoff)
        /\ ~IsExhausted(op[o].retry, now)
        /\ now >= 1

\* C17: however transport completions, timer expiries and cancellations
\* interleave, the callback of an operation runs at most once.
C17_CallbackAtMostOnce == \A o \in Ops : op[o].callbacks <= 1

\* One operation was cancelled during its second attempt, whose completion
\* then ran no callback, while another completed and ran its callback.
C17_Witness ==
    \E o, q \in Ops :
        /\ op[o].state = "cancelled" /\ op[o].attempts = 2
        /\ op[o].backoff = AfterCompletion(CloneBackoff(op[o].backoff))
        /\ op[o].callbacks = 0
        /\ op[q].state = "done" /\ op[q].callbacks = 1

\* The last override of a category among the constructor's arguments.
Overriding(category) ==
    {i \in 1..Len(ctor.args) : ctor.args[i].category = category}
LastOverride(category) ==
    ctor.args[CHOOSE i \in Overriding(category) :
                  \A j \in Overriding(category) : j <= i].policy

\* C18: after construction with overrides, each policy member is a clone of
\* the last override of its category, in argument order, and the default
\* where the category has no override.
C18_LastOverrideWins ==
    (ctor.built /\ ctor.target # "none") =>
        LET retry == IF Overriding("retry") = {} THEN DefaultRetryPolicy
                     ELSE CloneRetry(LastOverride("retry"), ctor.at)
            backoff == IF Overriding("backoff") = {} THEN DefaultBackoffPolicy
                       ELSE CloneBackoff(LastOverride("backoff"))
            polling == IF Overriding("polling") = {} THEN DefaultPollingPolicy
                       ELSE ClonePolling(LastOverride("polling"), ctor.at)
        IN IF ctor.target = "TableAdmin"
           THEN /\ rpc_retry_policy_ = retry
                /\ rpc_backoff_policy_ = backoff
                /\ polling_policy_ = polling
           ELSE /\ retry_policy_ = retry
                /\ backoff_policy_ = backoff

\* A TableAdmin was constructed with two different retry overrides around a
\* polling override and without a backoff override.
C18_Witness ==
    /\ ctor.built /\ ctor.target = "TableAdmin"
    /\ Len(ctor.args) = 3
    /\ ctor.args[1].category = "retry" /\ ctor.args[3].category = "retry"
    /\ ctor.args[2].category = "polling"
    /\ CloneRetry(ctor.args[1].policy, 0) # CloneRetry(ctor.args[3].policy, 0)
    /\ rpc_retry_policy_.kind = "count"
    /\ polling_policy_ # DefaultPollingPolicy

\* The operations that have ended with a failure.
Failed == {o \in Ops : op[o].state = "done" /\ op[o].last # 0}

Abnormal ==
    \E u \in Threads : "permanent" \in seen[u] \/ "badbody" \in seen[u]

BudgetSpent(t) ==
    IF retry_policy_.kind = "count"
    THEN attempts[t] >= retry_policy_.limit
    ELSE now >= retry_policy_.deadline

\* The run has reached the bounds of the model.
Horizon ==
    \/ requests >= MaxRequests
    \/ now + OnCompletion(backoff_policy_) > MaxTime

\* C20: when the endpoint answers a refresh with transient failures and
\* then with 200 before the budget is used up, every thread inside
\* AuthorizationHeader eventually returns a header built from a 200.
C20_RefreshRetriesUntilSuccess ==
    \A t \in Threads :
        InCall(t) ~>
            \/ /\ pc[t] = "done"
               /\ \E p \in Payloads : ~ParseThrows(p) /\ result[t] = Header(p)
            \/ Abnormal
            \/ BudgetSpent(t)
            \/ Horizon

\* C21: a successful refresh at time t whose response carries
\* expires_in = L sets the cached expiration to t + L - slack.
C21_ExpirationIsNowPlusLifetimeMinusSlack ==
    [][\A t \in Threads, r \in Responses :
          (/\ pc[t] = "inflight"
           /\ pc'[t] = "done"
           /\ Kind(r) = "ok"
           /\ HandleResponse(t, r)) =>
              expiration_time_' =
                  now + r.payload.expires_in.num
                      - GoogleOAuthTokenExpirationSlack]_vars

\* A token of lifetime 3 was published at time 2: it expires at 2 + 3 - 1.
C21_Witness ==
    /\ now = 2
    /\ authorization_header_ = Header(GoodLong)
    /\ expiration_time_ = 4

\* C22: the header a call returns is "Authorization: <token_type>
\* <access_token>" of the most recent fully parsed 200 response: such a
\* response sets the cached header to exactly that text, nothing else
\* changes the cached header, and a returning call hands out the cached
\* header.
C22_HeaderOfLastParsedResponse ==
    [][/\ \A t \in Threads, r \in Responses :
             (/\ pc[t] = "inflight"
              /\ pc'[t] = "done"
              /\ Kind(r) = "ok"
              /\ HandleResponse(t, r)) =>
                 authorization_header_' =
                     "Authorization: " \o r.payload.token_type.str
                         \o " " \o r.payload.access_token.str
       /\ authorization_header_' # authorization_header_ =>
             \E t \in Threads, r \in Responses :
                 HandleResponse(t, r) /\ Kind(r) = "ok"
       /\ \A t \in Threads :
             (pc[t] # "done" /\ pc'[t] = "done") =>
                 /\ result'[t] = authorization_header_'
                 /\ result'[t] # ""]_vars

\* Two calls have returned the headers of two successive responses; the
\* later one is the cached one.
C22_Witness ==
    \E t, u \in Threads :
        /\ pc[t] = "done" /\ result[t] = "Authorization: Bearer B"
        /\ pc[u] = "done" /\ result[u] = "Authorization: Bearer A"
        /\ authorization_header_ = "Authorization: Bearer A"

\* C23: id_token is optional: a 200 response with token_type, access_token
\* and expires_in but without id_token is a successful refresh, which
\* publishes header and expiration and lets the call return the header.
C23_IdTokenOptional ==
    [][\A t \in Threads :
          (/\ pc[t] = "inflight"
           /\ pc'[t] # "inflight"
           /\ HandleResponse(t, [status_code |-> 200, payload |-> NoIdToken])) =>
              /\ pc'[t] = "done"
              /\ authorization_header_' = "Authorization: Bearer C"
              /\ result'[t] = "Authorization: Bearer C"
              /\ expiration_time_' =
                     now + 3 - GoogleOAuthTokenExpirationSlack]_vars

\* C28: every failure of a refresh (budget exhausted, permanent non-200,
\* 200 that cannot be parsed) reaches the caller as an error value: the call
\* returns, what it returns is not a header, and no exception leaves
\* AuthorizationHeader.
C28_FailuresReturnedAsErrors ==
    [][\A t \in Threads :
          /\ pc'[t] # "threw"
          /\ (\/ /\ pc[t] = "loop"
                 /\ IsExhausted(retry_policy_, now)
                 /\ pc'[t] # "loop"
              \/ /\ pc[t] = "inflight"
                 /\ pc'[t] \notin {"inflight", "backoff"}
                 /\ \E r \in Responses :
                        Kind(r) # "ok" /\ HandleResponse(t, r)) =>
                 /\ pc'[t] = "done"
                 /\ result'[t] # NoResult
                 /\ result'[t] # authorization_header_']_vars

\* C29: a successful refresh leaves the cache fresh: right after the
\* response is published the cached expiration is strictly in the future,
\* whatever lifetime the response carries.
C29_SuccessLeavesCacheFresh ==
    [][\A t \in Threads :
          (/\ pc[t] = "inflight"
           /\ pc'[t] = "done"
           /\ \E r \in Responses : Kind(r) = "ok" /\ HandleResponse(t, r)) =>
              now' < expiration_time_']_vars

\* C30: a call that finds the cache stale sends at least one request before
\* it can fail: no call gives up, by blocking or by an exception, with no
\* request made on its behalf.
C30_RequestBeforeFailure ==
    [][\A t \in Threads :
          (pc[t] \notin {"wait", "threw"} /\ pc'[t] \in {"wait", "threw"}) =>
              attempts'[t] >= 1]_vars

\* C27: every AsyncGetTable call runs on its own clones of the stored retry
\* and backoff policies: no step of any operation changes the stored
\* policies, an operation starts with the full budget of the stored retry
\* policy, counted from its own start, and with the stored backoff policy at
\* its initial delay, and a step of one operation leaves the policies of
\* every other operation alone.
C27_CallsRunOnOwnClones ==
    [][/\ UNCHANGED prototypes
       /\ \A o \in Ops :
             (op[o].state = "idle" /\ op'[o].state # "idle") =>
                 /\ op'[o].retry.kind = rpc_retry_policy_.kind
                 /\ op'[o].retry.limit = rpc_retry_policy_.limit
                 /\ op'[o].retry.period = rpc_retry_policy_.period
                 /\ op'[o].retry.failures = 0
                 /\ op'[o].retry.kind = "time" =>
                        op'[o].retry.deadline = now + rpc_retry_policy_.period
                 /\ op'[o].backoff.initial = rpc_backoff_policy_.initial
                 /\ op'[o].backoff.maximum = rpc_backoff_policy_.maximum
                 /\ op'[o].backoff.scaling = rpc_backoff_policy_.scaling
                 /\ op'[o].backoff.current = rpc_backoff_policy_.initial
       /\ \A o, q \in Ops :
             (o # q /\ op'[o] # op[o]) =>
                 /\ op'[q].retry = op[q].retry
                 /\ op'[q].backoff = op[q].backoff]_vars

\* One operation has used a part of its budget and advanced its backoff;
\* a later one runs with an untouched budget, and the stored policies are
\* as constructed.
C27_Witness ==
    \E o, q \in Ops :
        /\ op[o].state = "timer" /\ op[o].retry.failures = 1
        /\ op[o].backoff.current > op[o].backoff.initial
        /\ op[q].state = "inflight" /\ op[q].retry.failures = 0
        /\ op[q].backoff.current = op[q].backoff.initial
        /\ rpc_retry_policy_.failures = 0
        /\ rpc_backoff_policy_.current = rpc_backoff_policy_.initial

\* C24: GoogleDefaultCredentials selects the credentials class from the
\* "type" field of the parsed credentials file: "authorized_user" yields
\* authorized-user credentials, "service_account" service-account
\* credentials, and any other or missing type the "Unsupported credential
\* type" error.
FileRead ==
    /\ adc.state # "idle"
    /\ adc.path # "" /\ adc.openable /\ adc.contents.parsable

TypeIs(name) ==
    /\ adc.contents.object /\ adc.contents.has_type
    /\ adc.contents.type = Str(name)

C24_TypeSelectsClass ==
    FileRead =>
        IF TypeIs("authorized_user")
        THEN /\ adc.result.kind = "credentials"
             /\ adc.result.class = "AuthorizedUserCredentials"
        ELSE IF TypeIs("service_account")
        THEN /\ adc.result.kind = "credentials"
             /\ adc.result.class = "ServiceAccountCredentials"
        ELSE /\ adc.result.kind = "runtime_error"
             /\ SubSeq(adc.result.what, 1, 27) = "Unsupported credential type"

C26_HashOfWholePayload ==
    hv.state = "finished" =>
        /\ hv.result.computed = ComputeMD5Hash(hv.expected)
        /\ hv.md5_hash = ComputeMD5Hash(hv.expected) =>
               /\ hv.result.received = hv.result.computed
               /\ hv.result.received = hv.md5_hash

\* C31: the backoff state is per refresh: the wait after the first failed
\* attempt of a call is the configured initial delay, whatever earlier
\* refreshes of the same credentials object have gone through.
C31_FirstWaitIsInitialDelay ==
    \A t \in Threads :
        (pc[t] = "backoff" /\ attempts[t] = 1) =>
            OnCompletion(backoff_policy_) = backoff_policy_.initial

\* C32: a refresh attempt that ends with a non-200 status leaves the cached
\* header and expiration as they were; the two change only in the step
\* that publishes a fully parsed 200 response.
C32_FailureKeepsCache ==
    [][/\ \A t \in Threads :
             (/\ pc[t] = "inflight"
              /\ pc'[t] \in {"backoff", "wait"}) => UNCHANGED cache
       /\ ~(UNCHANGED cache) =>
             \E t \in Threads :
                 /\ pc[t] = "inflight"
                 /\ pc'[t] = "done"
                 /\ "ok" \in seen'[t]]_vars

\* A refresh has failed with a non-200 status while a token was cached: the
\* token is still there.
C32_Witness ==
    \E t \in Threads :
        /\ pc[t] \in {"backoff", "wait"}
        /\ seen[t] \cap {"transient", "permanent"} # {}
        /\ authorization_header_ = Header(GoodShort)
        /\ expiration_time_ = NewExpiration(GoodShort, 0)

\* C33: AuthorizationHeader never returns the initial, empty header: a call
\* returns only when, holding mu_, it has either seen the cached expiration
\* in the future or just published a 200 response; and whenever the cached
\* expiration is in the future the cached header is not empty.
C33_NeverEmptyHeader ==
    /\ [](now < expiration_time_ => authorization_header_ # "")
    /\ [][\A t \in Threads :
            (pc[t] # "done" /\ pc'[t] = "done") =>
                /\ mu_ = {t}
                /\ result'[t] # ""
                /\ result'[t] = authorization_header_'
                /\ \/ pc[t] = "refresh" /\ now < expiration_time_
                   \/ /\ pc[t] = "inflight"
                      /\ "ok" \in seen'[t]
                      /\ \E p \in Payloads :
                             /\ ~ParseThrows(p)
                             /\ authorization_header_' = Header(p)
                             /\ expiration_time_' = NewExpiration(p, now)]_vars

\* One call has returned the header it published, another the header it
\* found cached and still valid.
C33_Witness ==
    \E t, u \in Threads :
        /\ pc[t] = "done" /\ attempts[t] = 1 /\ seen[t] = {"ok"}
        /\ pc[u] = "done" /\ attempts[u] = 0
        /\ result[u] = result[t] /\ result[u] # ""
        /\ now < expiration_time_

\* C34: ProcessMetadata with an empty md5 hash leaves the received hash as
\* it was, so a hash received from a header is kept; with a non-empty md5
\* hash it replaces the received hash with that value.
C34_EmptyMetadataKeepsHash ==
    [][(hv.state = "open" /\ hv'.state = "open"
                         /\ hv'.last.call = "ProcessMetadata") =>
          hv'.received_hash_ =
              IF hv'.last.hash = "" THEN hv.received_hash_
              ELSE hv'.last.hash]_vars

\* Metadata without md5 hash came after a header with one.
C34_Witness ==
    /\ hv.last = Called("ProcessMetadata", "")
    /\ hv.received_hash_ = ComputeMD5Hash("ab")
    /\ hv.md5_hash = ComputeMD5Hash("ab")

\* C35: the received hash Finish reports is the hash of the last call that
\* carried one, an x-goog-hash header with an md5 entry or metadata with a
\* non-empty md5 hash, and it is empty if no call carried a hash; Update
\* calls and calls that carry no hash never change the received hash.
C35_LastHashWins ==
    /\ [](hv.state = "finished" => hv.result.received = hv.md5_hash)
    /\ [][(hv.state = "open" /\ hv'.state = "open" /\ hv'.last.hash = "") =>
             hv'.received_hash_ = hv.received_hash_]_vars

\* C36: for an x-goog-hash header that lists several hashes, in either
\* order, ProcessHeader sets the received hash to the md5 entry alone, and
\* a payload whose hash the server reported does not produce a mismatch.
C36_Md5EntryAlone ==
    /\ [][(hv.state = "open" /\ hv'.state = "open"
                             /\ hv'.last.call = "ProcessHeader"
                             /\ hv'.last.hash # "") =>
             hv'.received_hash_ = hv'.last.hash]_vars
    /\ []((hv.state = "finished" /\ hv.last.call = "ProcessHeader"
                                 /\ hv.md5_hash = ComputeMD5Hash(hv.expected))
             => hv.result.kind = "Result")

\* C37: GoogleDefaultCredentials never returns an empty pointer: every call
\* returns a credentials object of the selected class or raises a runtime
\* error, and the conditions are checked in this order: no path
\* configured, file cannot be opened, contents are not valid JSON,
\* unsupported type.
C37_CredentialsOrRuntimeError ==
    adc.state # "idle" =>
        /\ adc.result.kind \in {"credentials", "runtime_error"}
        /\ adc.result.kind = "credentials" <=> adc.state = "returned"
        /\ IF adc.path = ""
           THEN adc.result.what =
                    "No eligible credential types were found to use as "
                        \o "default credentials."
           ELSE IF ~adc.openable
           THEN adc.result.what = "Cannot open credentials file " \o adc.path
           ELSE IF ~adc.contents.parsable
           THEN adc.result.what =
                    "Invalid contents in credentials file " \o adc.path
           ELSE \/ /\ adc.result.kind = "credentials"
                   /\ adc.result.class \in {"AuthorizedUserCredentials",
                                            "ServiceAccountCredentials"}
                \/ /\ adc.result.kind = "runtime_error"
                   /\ SubSeq(adc.result.what, 1, 27) =
                          "Unsupported credential type"

====
